---- MODULE Spec2Model ----
(***************************************************************************)
(* PollData (Telegram/SourceFiles/data/data_poll.cpp): a cached poll that  *)
(* is reconciled with full definitions (applyChanges) and with results     *)
(* (applyResults), with a throttled results reload (checkResultsReload).   *)
(***************************************************************************)
EXTENDS Integers, Sequences, FiniteSets, TLC

VARIABLES
    id,                 \* PollData::id
    question,           \* PollData::question
    flags,              \* PollData::_flags, the set of Flag bits that are set
    answers,            \* PollData::answers, a sequence of PollAnswer
    totalVoters,        \* PollData::totalVoters
    recentVoters,       \* PollData::recentVoters, a sequence of user handles
    version,            \* PollData::version
    lastResultsUpdate,  \* PollData::lastResultsUpdate, 0 when never stamped
    now,                \* the clock crl::now() reads
    lastThrottled,      \* when applyResults was last called or a reload last
                        \* requested of the Api, 0 when neither ever was
    last                \* the last call: its name, its argument, what it
                        \* returned, and the poll as the call found it

vars == <<id, question, flags, answers, totalVoters, recentVoters, version,
          lastResultsUpdate, now, lastThrottled, last>>

\* The fields of the poll, the clock and the time of the last throttled
\* event, as a call finds them.
poll ==
    [question |-> question, flags |-> flags, answers |-> answers,
     totalVoters |-> totalVoters, recentVoters |-> recentVoters,
     version |-> version, lastResultsUpdate |-> lastResultsUpdate,
     now |-> now, lastThrottled |-> lastThrottled]

----------------------------------------------------------------------------
(* Program constants *)

kShortPollTimeout == 30 * 1000

\* PollData::kMaxOptions is declared in data_poll.h (10 there); the model
\* keeps the truncation and scales the length down.
kMaxOptions == 2

\* The poll's identifier, fixed by the constructor.
PollId == 7

Closed == "Closed"
PublicVotes == "PublicVotes"
MultiChoice == "MultiChoice"
Quiz == "Quiz"

----------------------------------------------------------------------------
(* Bounds of the model *)

MaxVersion == 4     \* calls are taken while version < MaxVersion
MaxDefLen == 3      \* answers of an incoming definition
MaxResLen == 2      \* records of an incoming results list
MaxRecent == 2      \* ids of an incoming recent-voters list
MaxPeriods == 2     \* the clock runs to MaxPeriods * kShortPollTimeout + 1

Min(a, b) == IF a <= b THEN a ELSE b

SeqsUpTo(S, n) == UNION {[1..k -> S] : k \in 0..n}

----------------------------------------------------------------------------
(* PollAnswer and the helpers of the anonymous namespace *)

\* A default-constructed PollAnswer carrying the option and text of a
\* definition's answer (applyChanges, the transform lambda).
NewAnswer(a) ==
    [option |-> a.option, text |-> a.text,
     votes |-> 0, chosen |-> FALSE, correct |-> FALSE]

\* operator== of PollAnswer is declared in data_poll.h; the specification
\* describes it as a comparison of the full value.
PollAnswerEq(a, b) ==
    /\ a.option = b.option
    /\ a.text = b.text
    /\ a.votes = b.votes
    /\ a.chosen = b.chosen
    /\ a.correct = b.correct

\* answers != newAnswers: std::vector compares sizes, then elements in order.
AnswersDiffer(xs, ys) ==
    \/ Len(xs) # Len(ys)
    \/ \E i \in 1..Len(xs) : ~PollAnswerEq(xs[i], ys[i])

\* AnswerByOption: ranges::find returns the first element with this option;
\* 0 stands for nullptr.
AnswerByOption(list, option) ==
    IF \E i \in 1..Len(list) : list[i].option = option
    THEN CHOOSE i \in 1..Len(list) :
            /\ list[i].option = option
            /\ \A j \in 1..(i - 1) : list[j].option # option
    ELSE 0

\* The Flag set applyChanges builds from the MTPDpoll bits.
NewFlags(d) ==
    (IF d.closed THEN {Closed} ELSE {})
    \cup (IF d.public_voters THEN {PublicVotes} ELSE {})
    \cup (IF d.multiple_choice THEN {MultiChoice} ELSE {})
    \cup (IF d.quiz THEN {Quiz} ELSE {})

\* NewAnswers without view::take.
NewAnswersUntaken(d) ==
    [i \in 1..Len(d.answers) |-> NewAnswer(d.answers[i])]

\* view::transform | view::take(kMaxOptions) | to_vector
NewAnswers(d) ==
    [i \in 1..Min(Len(d.answers), kMaxOptions) |-> NewAnswer(d.answers[i])]

\* The loop after std::swap(answers, newAnswers): for every old answer, in
\* order, the first current answer with its option takes its votes, chosen
\* and correct. k is the next old answer to visit.
RECURSIVE MigrateFrom(_, _, _)
MigrateFrom(current, old, k) ==
    IF k > Len(old) THEN current
    ELSE LET i == AnswerByOption(current, old[k].option)
             next == IF i = 0 THEN current
                     ELSE [current EXCEPT ![i].votes = old[k].votes,
                                          ![i].chosen = old[k].chosen,
                                          ![i].correct = old[k].correct]
         IN MigrateFrom(next, old, k + 1)

\* PollData::closed
IsClosed(f) == Closed \in f

\* applyResultToAnswers writing chosen whatever isMinResults is.
ApplyResultToAnswersChosenUngated(list, voters, isMinResults, closed) ==
    LET i == AnswerByOption(list, voters.option) IN
    IF i = 0 THEN <<list, FALSE>>
    ELSE
        LET answer == list[i]
            changedVotes == answer.votes # voters.voters
            a1 == IF changedVotes
                  THEN [answer EXCEPT !.votes = voters.voters] ELSE answer
            changedChosen == a1.chosen # voters.chosen
            a2 == IF changedChosen
                  THEN [a1 EXCEPT !.chosen = voters.chosen] ELSE a1
            changedCorrect == (~isMinResults \/ closed)
                              /\ a2.correct # voters.correct
            a3 == IF changedCorrect
                  THEN [a2 EXCEPT !.correct = voters.correct] ELSE a2
        IN <<[list EXCEPT ![i] = a3],
             changedVotes \/ changedChosen \/ changedCorrect>>

\* applyResultToAnswers writing correct whatever isMinResults and closed are.
ApplyResultToAnswersCorrectUngated(list, voters, isMinResults, closed) ==
    LET i == AnswerByOption(list, voters.option) IN
    IF i = 0 THEN <<list, FALSE>>
    ELSE
        LET answer == list[i]
            changedVotes == answer.votes # voters.voters
            a1 == IF changedVotes
                  THEN [answer EXCEPT !.votes = voters.voters] ELSE answer
            changedChosen == ~isMinResults /\ a1.chosen # voters.chosen
            a2 == IF changedChosen
                  THEN [a1 EXCEPT !.chosen = voters.chosen] ELSE a1
            changedCorrect == a2.correct # voters.correct
            a3 == IF changedCorrect
                  THEN [a2 EXCEPT !.correct = voters.correct] ELSE a2
        IN <<[list EXCEPT ![i] = a3],
             changedVotes \/ changedChosen \/ changedCorrect>>

\* applyResultToAnswers writing correct only when isMinResults is false.
ApplyResultToAnswersCorrectNeverMin(list, voters, isMinResults, closed) ==
    LET i == AnswerByOption(list, voters.option) IN
    IF i = 0 THEN <<list, FALSE>>
    ELSE
        LET answer == list[i]
            changedVotes == answer.votes # voters.voters
            a1 == IF changedVotes
                  THEN [answer EXCEPT !.votes = voters.voters] ELSE answer
            changedChosen == ~isMinResults /\ a1.chosen # voters.chosen
            a2 == IF changedChosen
                  THEN [a1 EXCEPT !.chosen = voters.chosen] ELSE a1
            changedCorrect == ~isMinResults /\ a2.correct # voters.correct
            a3 == IF changedCorrect
                  THEN [a2 EXCEPT !.correct = voters.correct] ELSE a2
        IN <<[list EXCEPT ![i] = a3],
             changedVotes \/ changedChosen \/ changedCorrect>>

\* applyResultToAnswers returning true for every record whose answer exists.
ApplyResultToAnswersAlwaysChanged(list, voters, isMinResults, closed) ==
    LET i == AnswerByOption(list, voters.option) IN
    IF i = 0 THEN <<list, FALSE>>
    ELSE
        LET answer == list[i]
            changedVotes == answer.votes # voters.voters
            a1 == IF changedVotes
                  THEN [answer EXCEPT !.votes = voters.voters] ELSE answer
            changedChosen == ~isMinResults /\ a1.chosen # voters.chosen
            a2 == IF changedChosen
                  THEN [a1 EXCEPT !.chosen = voters.chosen] ELSE a1
            changedCorrect == (~isMinResults \/ closed)
                              /\ a2.correct # voters.correct
            a3 == IF changedCorrect
                  THEN [a2 EXCEPT !.correct = voters.correct] ELSE a2
        IN <<[list EXCEPT ![i] = a3], TRUE>>

\* applyResultToAnswers returning true for a record whose answer is unknown.
ApplyResultToAnswersUnknownChanged(list, voters, isMinResults, closed) ==
    LET i == AnswerByOption(list, voters.option) IN
    IF i = 0 THEN <<list, TRUE>>
    ELSE
        LET answer == list[i]
            changedVotes == answer.votes # voters.voters
            a1 == IF changedVotes
                  THEN [answer EXCEPT !.votes = voters.voters] ELSE answer
            changedChosen == ~isMinResults /\ a1.chosen # voters.chosen
            a2 == IF changedChosen
                  THEN [a1 EXCEPT !.chosen = voters.chosen] ELSE a1
            changedCorrect == (~isMinResults \/ closed)
                              /\ a2.correct # voters.correct
            a3 == IF changedCorrect
                  THEN [a2 EXCEPT !.correct = voters.correct] ELSE a2
        IN <<[list EXCEPT ![i] = a3],
             changedVotes \/ changedChosen \/ changedCorrect>>

\* applyResultToAnswers on the list: <<the list afterwards, the result>>.
ApplyResultToAnswers(list, voters, isMinResults, closed) ==
    LET i == AnswerByOption(list, voters.option) IN
    IF i = 0 THEN <<list, FALSE>>
    ELSE
        LET answer == list[i]
            changedVotes == answer.votes # voters.voters
            a1 == IF changedVotes
                  THEN [answer EXCEPT !.votes = voters.voters] ELSE answer
            changedChosen == ~isMinResults /\ a1.chosen # voters.chosen
            a2 == IF changedChosen
                  THEN [a1 EXCEPT !.chosen = voters.chosen] ELSE a1
            changedCorrect == (~isMinResults \/ closed)
                              /\ a2.correct # voters.correct
            a3 == IF changedCorrect
                  THEN [a2 EXCEPT !.correct = voters.correct] ELSE a2
        IN <<[list EXCEPT ![i] = a3],
             changedVotes \/ changedChosen \/ changedCorrect>>

\* The loop of applyResults over results.vresults(): <<list, changed>> after
\* the records from k on.
RECURSIVE ApplyResultList(_, _, _, _, _)
ApplyResultList(acc, records, k, isMinResults, closed) ==
    IF k > Len(records) THEN acc
    ELSE LET r == ApplyResultToAnswers(acc[1], records[k], isMinResults, closed)
         IN ApplyResultList(<<r[1], acc[2] \/ r[2]>>, records, k + 1,
                            isMinResults, closed)

\* Data::Session::user(id): the handle of the user with this id.
User(userId) == [peer |-> "user", id |-> userId]

\* Users whose loadedStatus is not PeerData::NotLoaded.
LoadedUsers == {1, 2}

UserLoaded(user) == user.id \in LoadedUsers

\* ranges::equal on the two sets of ids, whatever their order.
RecentEqualAsSets(stored, ids) ==
    {stored[i].id : i \in 1..Len(stored)} = {ids[i] : i \in 1..Len(ids)}

\* ranges::equal(recentVoters, recent->v, equal_to, &UserData::id, &MTPint::v)
RecentEqual(stored, ids) ==
    /\ Len(stored) = Len(ids)
    /\ \A i \in 1..Len(stored) : stored[i].id = ids[i]

\* The recentVoters rebuild without view::filter.
RECURSIVE ResolveRecentUnfiltered(_)
ResolveRecentUnfiltered(ids) ==
    IF ids = <<>> THEN <<>>
    ELSE <<User(Head(ids))>> \o ResolveRecentUnfiltered(Tail(ids))

\* transform to the handle (nullptr when not loaded) | filter non-null
RECURSIVE ResolveRecent(_)
ResolveRecent(ids) ==
    IF ids = <<>> THEN <<>>
    ELSE LET user == User(Head(ids))
             rest == ResolveRecent(Tail(ids))
         IN IF UserLoaded(user) THEN <<user>> \o rest ELSE rest

\* PollDataToMTP(poll, close): the MTPDpoll built from the poll p. The
\* record carries the decoded fields: the id, the four flag bits, the
\* question, and the text and option of every answer in stored order.
PollDataToMTP(p, close) ==
    [id |-> p.id,
     question |-> p.question,
     closed |-> (IsClosed(p.flags) \/ close),
     public_voters |-> (PublicVotes \in p.flags),
     multiple_choice |-> (MultiChoice \in p.flags),
     quiz |-> (Quiz \in p.flags),
     answers |-> [i \in 1..Len(p.answers) |->
                    [option |-> p.answers[i].option,
                     text |-> p.answers[i].text]]]

----------------------------------------------------------------------------
(* The inputs the calls are given *)

Questions == {"q1", "q2"}
Options == {"A", "B"}
Texts == {"x", "y"}
UserIds == {1, 2, 3}
Counts == {0, 1}
AllFlags == {Closed, PublicVotes, MultiChoice, Quiz}

\* MTPDpollAnswer: text, option.
\* Option A under either text and option B under one: enough to tell a change
\* of text from a change of option.
DefAnswers ==
    {a \in [option : Options, text : Texts] : a.option = "A" \/ a.text = "x"}

\* MTPDpoll: id, flag bits, question, answers. bits is the set of the wire
\* flags that are set.
DefinitionsOver(questions, bitSets, lists) ==
    {[id |-> PollId, question |-> q,
      closed |-> "closed" \in b,
      public_voters |-> "public_voters" \in b,
      multiple_choice |-> "multiple_choice" \in b,
      quiz |-> "quiz" \in b,
      answers |-> l] : q \in questions, b \in bitSets, l \in lists}

\* MTPDpollAnswerVoters: option, voters, and the chosen and correct bits.
AnswerVoters ==
    [option : Options, voters : Counts, chosen : BOOLEAN, correct : BOOLEAN]

\* The records with chosen, correct and a vote all clear or all set.
PlainVoters ==
    {v \in AnswerVoters : v.chosen = v.correct /\ v.chosen = (v.voters > 0)}

\* An optional field is a sequence of length 0 (absent) or 1 (present).
Absent == <<>>
Optional(S) == {Absent} \cup {<<x>> : x \in S}

\* MTPDpollResults: the min bit, total_voters, results and recent_voters.
\* An absent results vector runs the loop of applyResults zero times, as an
\* empty one does.
ResultsOver(mins, totals, lists, recents) ==
    [min : mins, total_voters : totals, results : lists,
     recent_voters : recents]

\* The lists of up to MaxRecent user ids, none of them twice.
RecentLists ==
    {l \in SeqsUpTo(UserIds, MaxRecent) :
        \A i, j \in 1..Len(l) : l[i] = l[j] => i = j}

\* The instants the clock takes: 1, and each multiple of the timeout with
\* the instants just before and after it.
TimeGrid ==
    {1} \cup {k * kShortPollTimeout + e : k \in 1..MaxPeriods, e \in {-1, 0, 1}}

----------------------------------------------------------------------------
(* The state after construction *)

Init ==
    /\ id = PollId
    /\ question = ""
    /\ flags = {}
    /\ answers = <<>>
    /\ totalVoters = 0
    /\ recentVoters = <<>>
    /\ version = 0
    /\ lastResultsUpdate = 0
    /\ now = 1      \* crl::now() is positive once the application runs
    /\ lastThrottled = 0
    /\ last = [op |-> "PollData", arg |-> PollId, ret |-> "void",
               pre |-> [question |-> "", flags |-> {}, answers |-> <<>>,
                        totalVoters |-> 0, recentVoters |-> <<>>,
                        version |-> 0, lastResultsUpdate |-> 0, now |-> 1,
                        lastThrottled |-> 0]]

----------------------------------------------------------------------------
(* The calls *)

\* applyChanges with ++version inside each of the two branches.
applyChangesBumpingEachUnit(d) ==
    LET newQuestion == d.question
        newFlags == NewFlags(d)
        newAnswers == NewAnswers(d)
        changed1 == (question # newQuestion) \/ (flags # newFlags)
        changed2 == AnswersDiffer(answers, newAnswers)
    IN
    /\ d.id = id
    /\ version < MaxVersion
    /\ IF ~changed1 /\ ~changed2
       THEN /\ UNCHANGED <<question, flags, answers, version>>
            /\ last' = [op |-> "applyChanges", arg |-> d, ret |-> FALSE,
                        pre |-> poll]
       ELSE /\ question' = IF changed1 THEN newQuestion ELSE question
            /\ flags' = IF changed1 THEN newFlags ELSE flags
            /\ answers' = IF changed2
                          THEN MigrateFrom(newAnswers, answers, 1)
                          ELSE answers
            /\ version' = version + (IF changed1 THEN 1 ELSE 0)
                                  + (IF changed2 THEN 1 ELSE 0)
            /\ last' = [op |-> "applyChanges", arg |-> d, ret |-> TRUE,
                        pre |-> poll]
    /\ UNCHANGED <<id, totalVoters, recentVoters, lastResultsUpdate, now,
                   lastThrottled>>

\* PollData::applyChanges: Expects(poll.vid().v == id) is the guard.
applyChanges(d) ==
    LET newQuestion == d.question
        newFlags == NewFlags(d)
        newAnswers == NewAnswers(d)
        changed1 == (question # newQuestion) \/ (flags # newFlags)
        changed2 == AnswersDiffer(answers, newAnswers)
    IN
    /\ d.id = id
    /\ version < MaxVersion
    /\ IF ~changed1 /\ ~changed2
       THEN /\ UNCHANGED <<question, flags, answers, version>>
            /\ last' = [op |-> "applyChanges", arg |-> d, ret |-> FALSE,
                        pre |-> poll]
       ELSE /\ question' = IF changed1 THEN newQuestion ELSE question
            /\ flags' = IF changed1 THEN newFlags ELSE flags
            /\ answers' = IF changed2
                          THEN MigrateFrom(newAnswers, answers, 1)
                          ELSE answers
            /\ version' = version + 1
            /\ last' = [op |-> "applyChanges", arg |-> d, ret |-> TRUE,
                        pre |-> poll]
    /\ UNCHANGED <<id, totalVoters, recentVoters, lastResultsUpdate, now,
                   lastThrottled>>

\* applyResults with changed starting from false, whatever the count is.
applyResultsCountNotAChange(r) ==
    LET newTotalVoters == IF r.total_voters # <<>>
                          THEN r.total_voters[1] ELSE totalVoters
        applied == ApplyResultList(<<answers, FALSE>>, r.results, 1,
                                   r.min, IsClosed(flags))
        recentChanged == /\ r.recent_voters # <<>>
                         /\ ~RecentEqual(recentVoters, r.recent_voters[1])
        changed == applied[2] \/ recentChanged
    IN
    /\ version < MaxVersion
    /\ lastResultsUpdate' = now
    /\ answers' = applied[1]
    /\ recentVoters' = IF recentChanged
                       THEN ResolveRecent(r.recent_voters[1])
                       ELSE recentVoters
    /\ totalVoters' = IF changed THEN newTotalVoters ELSE totalVoters
    /\ version' = IF changed THEN version + 1 ELSE version
    /\ last' = [op |-> "applyResults", arg |-> r, ret |-> changed,
                pre |-> poll]
    /\ lastThrottled' = now
    /\ UNCHANGED <<id, question, flags, now>>

\* applyResults without lastResultsUpdate = crl::now().
applyResultsNotStamping(r) ==
    LET newTotalVoters == IF r.total_voters # <<>>
                          THEN r.total_voters[1] ELSE totalVoters
        changedTotal == newTotalVoters # totalVoters
        applied == ApplyResultList(<<answers, FALSE>>, r.results, 1,
                                   r.min, IsClosed(flags))
        recentChanged == /\ r.recent_voters # <<>>
                         /\ ~RecentEqual(recentVoters, r.recent_voters[1])
        changed == changedTotal \/ applied[2] \/ recentChanged
    IN
    /\ version < MaxVersion
    /\ answers' = applied[1]
    /\ recentVoters' = IF recentChanged
                       THEN ResolveRecent(r.recent_voters[1])
                       ELSE recentVoters
    /\ totalVoters' = IF changed THEN newTotalVoters ELSE totalVoters
    /\ version' = IF changed THEN version + 1 ELSE version
    /\ last' = [op |-> "applyResults", arg |-> r, ret |-> changed,
                pre |-> poll]
    /\ lastThrottled' = now
    /\ UNCHANGED <<id, question, flags, lastResultsUpdate, now>>

\* PollData::applyResults. applyResultToAnswers writes into answers as the
\* loop runs, before the function decides what to return.
applyResults(r) ==
    LET newTotalVoters == IF r.total_voters # <<>>
                          THEN r.total_voters[1] ELSE totalVoters
        changedTotal == newTotalVoters # totalVoters
        applied == ApplyResultList(<<answers, FALSE>>, r.results, 1,
                                   r.min, IsClosed(flags))
        recentChanged == /\ r.recent_voters # <<>>
                         /\ ~RecentEqual(recentVoters, r.recent_voters[1])
        changed == changedTotal \/ applied[2] \/ recentChanged
    IN
    /\ version < MaxVersion
    /\ lastResultsUpdate' = now
    /\ answers' = applied[1]
    /\ recentVoters' = IF recentChanged
                       THEN ResolveRecent(r.recent_voters[1])
                       ELSE recentVoters
    /\ totalVoters' = IF changed THEN newTotalVoters ELSE totalVoters
    /\ version' = IF changed THEN version + 1 ELSE version
    /\ last' = [op |-> "applyResults", arg |-> r, ret |-> changed,
                pre |-> poll]
    /\ lastThrottled' = now
    /\ UNCHANGED <<id, question, flags, now>>

\* The first early return taken also at the instant the timeout expires.
ShouldReloadLate(lastUpdate, t, closed) ==
    /\ ~(lastUpdate # 0 /\ lastUpdate + kShortPollTimeout >= t)
    /\ ~closed

\* The two early returns of checkResultsReload, negated.
ShouldReload(lastUpdate, t, closed) ==
    /\ ~(lastUpdate # 0 /\ lastUpdate + kShortPollTimeout > t)
    /\ ~closed

\* checkResultsReload stamping lastResultsUpdate before the early returns.
checkResultsReloadStampingAlways ==
    /\ lastResultsUpdate' = now
    /\ lastThrottled' = IF ShouldReload(lastResultsUpdate, now, IsClosed(flags))
                        THEN now ELSE lastThrottled
    /\ last' = [op |-> "checkResultsReload", arg |-> now,
                ret |-> ShouldReload(lastResultsUpdate, now, IsClosed(flags)),
                pre |-> poll]
    /\ UNCHANGED <<id, question, flags, answers, totalVoters, recentVoters,
                   version, now>>

\* PollData::checkResultsReload(item, now), called with the clock's time;
\* ret tells whether Api::reloadPollResults(item) was called.
checkResultsReload ==
    /\ IF ShouldReload(lastResultsUpdate, now, IsClosed(flags))
       THEN /\ lastResultsUpdate' = now
            /\ lastThrottled' = now
            /\ last' = [op |-> "checkResultsReload", arg |-> now,
                        ret |-> TRUE, pre |-> poll]
       ELSE /\ UNCHANGED <<lastResultsUpdate, lastThrottled>>
            /\ last' = [op |-> "checkResultsReload", arg |-> now,
                        ret |-> FALSE, pre |-> poll]
    /\ UNCHANGED <<id, question, flags, answers, totalVoters, recentVoters,
                   version, now>>

\* setFlags with ++version outside the test.
setFlagsBumpingAlways(f) ==
    /\ version < MaxVersion
    /\ flags' = f
    /\ version' = version + 1
    /\ last' = [op |-> "setFlags", arg |-> f, ret |-> "void", pre |-> poll]
    /\ UNCHANGED <<id, question, answers, totalVoters, recentVoters,
                   lastResultsUpdate, now, lastThrottled>>

\* PollData::setFlags
setFlags(f) ==
    /\ version < MaxVersion
    /\ IF flags # f
       THEN flags' = f /\ version' = version + 1
       ELSE UNCHANGED <<flags, version>>
    /\ last' = [op |-> "setFlags", arg |-> f, ret |-> "void", pre |-> poll]
    /\ UNCHANGED <<id, question, answers, totalVoters, recentVoters,
                   lastResultsUpdate, now, lastThrottled>>

\* A caller serializes the poll with PollDataToMTP(this, close); ret is the
\* record it gets. The poll is read, not written.
serialize(close) ==
    /\ last' = [op |-> "PollDataToMTP", arg |-> close,
                ret |-> PollDataToMTP([id |-> id, question |-> question,
                                       flags |-> flags, answers |-> answers],
                                      close),
                pre |-> poll]
    /\ UNCHANGED <<id, question, flags, answers, totalVoters, recentVoters,
                   version, lastResultsUpdate, now, lastThrottled>>

\* The record PollDataToMTP just returned comes back as a definition.
applyBack ==
    /\ last.op = "PollDataToMTP"
    /\ applyChanges(last.ret)

\* Time passes: the clock moves to a later instant.
Tick(t) ==
    /\ t > now
    /\ now' = t
    /\ UNCHANGED <<id, question, flags, answers, totalVoters, recentVoters,
                   version, lastResultsUpdate, lastThrottled, last>>

\* The calls on the poll, over the inputs a specification enumerates.
Calls(definitions, results, flagSets) ==
    \/ \E d \in definitions : applyChanges(d)
    \/ \E r \in results : applyResults(r)
    \/ checkResultsReload
    \/ \E f \in flagSets : setFlags(f)

\* Spec: definitions of up to MaxDefLen answers, with authoritative results
\* of at most one plain record to put votes, chosen and correct on the
\* stored answers. The clock stands still.
\* The lists: within kMaxOptions over every entry, and the longer ones over
\* the entries of text "x".
DefinitionLists ==
    SeqsUpTo(DefAnswers, kMaxOptions)
    \cup {s \in SeqsUpTo({a \in DefAnswers : a.text = "x"}, MaxDefLen) :
             Len(s) > kMaxOptions}

DefinitionInputs ==
    DefinitionsOver({"q1"}, {{}, {"closed"}}, DefinitionLists)

RecordInputs ==
    ResultsOver({FALSE}, {Absent}, SeqsUpTo(PlainVoters, 1), {Absent})

Next == Calls(DefinitionInputs, RecordInputs, {{}, {Closed}})

Spec == Init /\ [][Next]_vars

\* SpecAnswers: results with records in full and no voters, over a few
\* definitions: one answer, two answers, and two answers of one option.
FewDefinitions ==
    DefinitionsOver({"q1"}, {{}, {"closed"}},
                    {<<[option |-> "A", text |-> "x"]>>,
                     <<[option |-> "A", text |-> "x"],
                       [option |-> "B", text |-> "x"]>>,
                     <<[option |-> "A", text |-> "x"],
                       [option |-> "A", text |-> "y"]>>})

\* A list of one record is any record for "A" or a plain one for "B"; a
\* longer list is made of the plain records for "A" and the set one for "B".
LongListVoters == {v \in PlainVoters : v.option = "A" \/ v.chosen}

ResultLists ==
    SeqsUpTo({v \in AnswerVoters : v.option = "A" \/ v \in PlainVoters}, 1)
    \cup (SeqsUpTo(LongListVoters, MaxResLen) \ SeqsUpTo(LongListVoters, 1))

AnswerInputs == ResultsOver(BOOLEAN, {Absent}, ResultLists, {Absent})

NextAnswers == Calls(FewDefinitions, AnswerInputs, {{}, {Closed}})

SpecAnswers == Init /\ [][NextAnswers]_vars

\* SpecVoters: results with the voter count and the recent voters in full
\* and at most one record, over two definitions that differ in question,
\* flags and answers. An authoritative update carries no count or a count
\* of 1; a min update carries any count and no recent voters. The clock
\* ticks once.
VoterDefinitions ==
    DefinitionsOver({"q1"}, {{}}, {<<[option |-> "A", text |-> "x"]>>})
    \cup DefinitionsOver({"q2"}, {{"closed"}},
                         {<<[option |-> "A", text |-> "y"],
                            [option |-> "B", text |-> "x"]>>})

VoterRecords ==
    SeqsUpTo({v \in PlainVoters : v.option = "A" /\ v.chosen}, 1)

VoterInputs ==
    ResultsOver({FALSE}, Optional({1}), VoterRecords, Optional(RecentLists))
    \cup ResultsOver({TRUE}, Optional(Counts), VoterRecords, {Absent})

NextVoters ==
    \/ Calls(VoterDefinitions, VoterInputs, {{}, {Closed}})
    \/ Tick(2)

SpecVoters == Init /\ [][NextVoters]_vars

\* SpecReload: the clock runs over TimeGrid, with one open and one closed
\* definition and results that only stamp or change the voter count.
ReloadDefinitions ==
    DefinitionsOver({"q1"}, {{}, {"closed"}},
                    {<<[option |-> "A", text |-> "x"]>>})

ReloadInputs == ResultsOver({TRUE}, Optional(Counts), {<<>>}, {Absent})

NextReload ==
    \/ Calls(ReloadDefinitions, ReloadInputs, {{}, {Closed}})
    \/ \E t \in TimeGrid : Tick(t)

SpecReload == Init /\ [][NextReload]_vars

\* SpecWire: definitions and setFlags over the flag sets of no bit, of one
\* bit and of every bit, three answer lists (one of them with one option
\* twice), results that annotate the first answer "A" with or without a
\* voter count and a recent voter, and the serialization with its way back.
WireBitSets ==
    {b \in SUBSET {"closed", "public_voters", "multiple_choice", "quiz"} :
        Cardinality(b) \in {0, 1, 4}}

WireFlagSets == {f \in SUBSET AllFlags : Cardinality(f) \in {0, 1, 4}}

WireDefinitions ==
    DefinitionsOver({"q1"}, WireBitSets,
                    {<<[option |-> "A", text |-> "x"]>>,
                     <<[option |-> "B", text |-> "x"],
                       [option |-> "A", text |-> "x"]>>,
                     <<[option |-> "A", text |-> "x"],
                       [option |-> "A", text |-> "y"]>>})

WireInputs ==
    ResultsOver({FALSE}, Optional({1}),
                {<<v>> : v \in {w \in PlainVoters : w.option = "A" /\ w.chosen}},
                Optional({<<1>>}))

NextWire ==
    \/ Calls(WireDefinitions, WireInputs, WireFlagSets)
    \/ \E close \in BOOLEAN : serialize(close)
    \/ applyBack

SpecWire == Init /\ [][NextWire]_vars

----------------------------------------------------------------------------
(* Definition merge *)

\* The annotations of a stored answer.
Annotations(a) == <<a.votes, a.chosen, a.correct>>

\* The last call was applyChanges and it replaced the answer list.
ReplacedAnswers ==
    /\ last.op = "applyChanges"
    /\ AnswersDiffer(last.pre.answers, NewAnswers(last.arg))

\* Every answer of list now whose option was in list before carries the
\* annotations of an answer of before with that option, and every other
\* answer carries votes 0, chosen false, correct false.
Migrated(before, after) ==
    \A i \in 1..Len(after) :
        IF AnswerByOption(before, after[i].option) # 0
        THEN \E k \in 1..Len(before) :
                /\ before[k].option = after[i].option
                /\ Annotations(before[k]) = Annotations(after[i])
        ELSE Annotations(after[i]) = <<0, FALSE, FALSE>>

\* No option occurs twice in the list.
DistinctOptions(list) ==
    \A i, j \in 1..Len(list) : list[i].option = list[j].option => i = j

\* C1: applying one definition twice in a row, the second applyChanges
\* returns false and leaves version where the first call left it.
C1_SecondApplyChangesReturnsFalse ==
    [][(/\ last.op = "applyChanges"
        /\ last'.op = "applyChanges"
        /\ last'.arg = last.arg
        /\ last'.pre = poll)
       => (last'.ret = FALSE /\ version' = version)]_vars

\* C2: when applyChanges replaces the answer list, every new answer whose
\* option was in the previous list carries the votes, chosen and correct of
\* the previous answer with that option, and every other new answer carries
\* votes 0, chosen false, correct false.
C2_AnnotationsMigrate ==
    ReplacedAnswers => Migrated(last.pre.answers, answers)

\* The migration of C2 for a definition whose options are pairwise distinct.
MigrationOfDistinctOptions ==
    (ReplacedAnswers /\ DistinctOptions(NewAnswers(last.arg)))
    => Migrated(last.pre.answers, answers)

\* An answer moved to another position under another text and kept its
\* annotations, beside an answer that is new.
MigrationHappened ==
    /\ ReplacedAnswers
    /\ DistinctOptions(answers)
    /\ Len(last.pre.answers) = 1 /\ Len(answers) = 2
    /\ last.pre.answers[1].option = answers[2].option
    /\ last.pre.answers[1].text # answers[2].text
    /\ Annotations(answers[2]) = <<1, TRUE, TRUE>>

\* C8: the stored list never has more than kMaxOptions answers, and after
\* an applyChanges with a longer definition it holds the first kMaxOptions
\* input answers, option and text, in input order.
C8_Truncation ==
    /\ Len(answers) <= kMaxOptions
    /\ (last.op = "applyChanges" /\ Len(last.arg.answers) > kMaxOptions)
       => /\ Len(answers) = kMaxOptions
          /\ \A i \in 1..kMaxOptions :
                /\ answers[i].option = last.arg.answers[i].option
                /\ answers[i].text = last.arg.answers[i].text

\* A definition longer than kMaxOptions was committed over a shorter list.
C8_Witness ==
    /\ ReplacedAnswers
    /\ last.ret = TRUE
    /\ Len(last.arg.answers) > kMaxOptions
    /\ Len(last.pre.answers) < kMaxOptions
    /\ last.arg.answers[1].option # last.arg.answers[2].option
    /\ Len(answers) = kMaxOptions

----------------------------------------------------------------------------
(* Results merge: the answers *)

\* The last call was applyResults; min tells which kind.
AppliedResults(min) ==
    last.op = "applyResults" /\ last.arg.min = min

\* The last record of the list that carries the option.
LastRecordFor(records, option) ==
    CHOOSE k \in 1..Len(records) :
        /\ records[k].option = option
        /\ \A j \in (k + 1)..Len(records) : records[j].option # option

\* The records of the last applyResults whose option the lookup finds in
\* the stored list, each with the position of the answer found.
Matched ==
    {<<k, AnswerByOption(last.pre.answers, last.arg.results[k].option)>> :
        k \in 1..Len(last.arg.results)} \ (Nat \X {0})

\* C3 as claimed: a min update leaves every chosen as it was; a full update
\* leaves each matched answer with the chosen value of its record.
C3_ChosenFollowsEveryRecord ==
    /\ AppliedResults(TRUE)
       => \A i \in 1..Len(answers) :
             answers[i].chosen = last.pre.answers[i].chosen
    /\ AppliedResults(FALSE)
       => \A m \in Matched :
             answers[m[2]].chosen = last.arg.results[m[1]].chosen

\* C3, amended: a min update leaves every chosen as it was; a full update
\* leaves each matched answer with the chosen value of the last record of
\* the call that carries its option.
C3_ChosenFollowsLastRecord ==
    /\ AppliedResults(TRUE)
       => \A i \in 1..Len(answers) :
             answers[i].chosen = last.pre.answers[i].chosen
    /\ AppliedResults(FALSE)
       => \A m \in Matched :
             LET option == last.arg.results[m[1]].option
                 k == LastRecordFor(last.arg.results, option)
             IN answers[m[2]].chosen = last.arg.results[k].chosen

\* A min update carried chosen = false for an answer the viewer has chosen,
\* and the answer is still chosen.
C3_Witness ==
    /\ AppliedResults(TRUE)
    /\ \E m \in Matched :
          /\ ~last.arg.results[m[1]].chosen
          /\ last.pre.answers[m[2]].chosen
          /\ answers[m[2]].chosen

\* C4: a min update applied while the poll is open leaves the correct value
\* of every stored answer as it was.
C4_MinKeepsCorrectWhileOpen ==
    (AppliedResults(TRUE) /\ ~IsClosed(last.pre.flags))
    => /\ Len(answers) = Len(last.pre.answers)
       /\ \A i \in 1..Len(answers) :
             answers[i].correct = last.pre.answers[i].correct

\* A min update on an open poll carried correct = false for an answer known
\* to be correct, and the answer is still correct.
C4_Witness ==
    /\ AppliedResults(TRUE)
    /\ ~IsClosed(last.pre.flags)
    /\ \E m \in Matched :
          /\ ~last.arg.results[m[1]].correct
          /\ last.pre.answers[m[2]].correct
          /\ answers[m[2]].correct

\* The last call was a min update on a closed poll with a matched record
\* whose correct value differed from the stored one.
MinOnClosedDiffers ==
    /\ AppliedResults(TRUE)
    /\ IsClosed(last.pre.flags)
    /\ \E m \in Matched :
          last.arg.results[m[1]].correct # last.pre.answers[m[2]].correct

\* C5 as claimed: such a call leaves the stored correct at the value of
\* that record, returns true and advances version.
C5_ClosedMinSetsRecordValue ==
    MinOnClosedDiffers
    => /\ \A m \in Matched :
             last.arg.results[m[1]].correct # last.pre.answers[m[2]].correct
             => answers[m[2]].correct = last.arg.results[m[1]].correct
       /\ last.ret = TRUE
       /\ version = last.pre.version + 1

\* C5, amended: such a call returns true, advances version by one, and
\* leaves the stored correct of each matched answer at the value of the
\* last record of the call that carries its option.
C5_ClosedMinSetsLastValue ==
    MinOnClosedDiffers
    => /\ \A m \in Matched :
             LET option == last.arg.results[m[1]].option
                 k == LastRecordFor(last.arg.results, option)
             IN answers[m[2]].correct = last.arg.results[k].correct
       /\ last.ret = TRUE
       /\ version = last.pre.version + 1

\* A min update on a closed poll changed correct and nothing else.
C5_Witness ==
    /\ MinOnClosedDiffers
    /\ Len(last.arg.results) = 1
    /\ \E i \in 1..Len(answers) :
          /\ answers[i].correct # last.pre.answers[i].correct
          /\ answers[i].votes = last.pre.answers[i].votes
          /\ answers[i].chosen = last.pre.answers[i].chosen
    /\ last.ret = TRUE

----------------------------------------------------------------------------
(* Results merge: the voters, and the version *)

\* The ids of the stored handles, in order.
IdsOf(handles) == [i \in 1..Len(handles) |-> handles[i].id]

\* The results record r says of every field it carries what the poll p
\* holds: the total-voter count, the votes, chosen and correct of every
\* listed answer, the recent voters in order.
SameAsStored(r, p) ==
    /\ r.total_voters # Absent => r.total_voters[1] = p.totalVoters
    /\ \A k \in 1..Len(r.results) :
          LET i == AnswerByOption(p.answers, r.results[k].option) IN
          /\ i # 0
          /\ r.results[k].voters = p.answers[i].votes
          /\ r.results[k].chosen = p.answers[i].chosen
          /\ r.results[k].correct = p.answers[i].correct
    /\ r.recent_voters # Absent => r.recent_voters[1] = IdsOf(p.recentVoters)

\* C6: an applyResults whose record equals the current state in every field
\* returns false, leaves version, totalVoters, answers and recentVoters as
\* they were, and sets lastResultsUpdate to the current time.
C6_IdenticalResultsChangeNothing ==
    (last.op = "applyResults" /\ SameAsStored(last.arg, last.pre))
    => /\ last.ret = FALSE
       /\ version = last.pre.version
       /\ totalVoters = last.pre.totalVoters
       /\ answers = last.pre.answers
       /\ recentVoters = last.pre.recentVoters
       /\ lastResultsUpdate = last.pre.now

\* A record carrying the stored count, a stored answer and the stored recent
\* voters was applied at a later time than the previous stamp.
C6_Witness ==
    /\ last.op = "applyResults"
    /\ SameAsStored(last.arg, last.pre)
    /\ last.arg.total_voters # Absent
    /\ last.arg.recent_voters # Absent
    /\ Len(last.arg.results) > 0
    /\ Len(recentVoters) = 2
    /\ totalVoters > 0
    /\ last.pre.lastResultsUpdate # 0
    /\ lastResultsUpdate # last.pre.lastResultsUpdate

\* How many times x occurs in the sequence.
Count(x, seq) == Cardinality({i \in 1..Len(seq) : seq[i] = x})

\* ids is another ordering of exactly the users stored in handles.
Reordering(ids, handles) ==
    /\ ids # IdsOf(handles)
    /\ \A u \in UserIds : Count(u, ids) = Count(u, IdsOf(handles))

\* The last call was an applyResults whose recent-voter list reorders the
\* stored users, of whom there are at least two.
ReorderedRecent ==
    /\ last.op = "applyResults"
    /\ last.arg.recent_voters # Absent
    /\ Cardinality({last.pre.recentVoters[i] :
                        i \in 1..Len(last.pre.recentVoters)}) >= 2
    /\ Reordering(last.arg.recent_voters[1], last.pre.recentVoters)

\* C9: an applyResults whose recent-voter list is another ordering of the
\* stored users returns true, advances version once, and leaves the stored
\* sequence in the new order.
C9_ReorderIsAChange ==
    ReorderedRecent
    => /\ last.ret = TRUE
       /\ version = last.pre.version + 1
       /\ IdsOf(recentVoters) = last.arg.recent_voters[1]

\* A reordering of the stored recent voters was applied and nothing else
\* of the record differed from the poll.
C9_Witness ==
    /\ ReorderedRecent
    /\ last.arg.total_voters = Absent
    /\ last.arg.results = <<>>
    /\ recentVoters # last.pre.recentVoters

\* The last call was one of the two merges.
Merged == last.op \in {"applyChanges", "applyResults"}

\* What observers of the poll see, besides version.
Observable(p) ==
    <<p.question, p.flags, p.answers, p.totalVoters, p.recentVoters>>

\* C10: version never decreases; a merge advances it by exactly 1 when it
\* returns true and by 0 when it returns false; and a merge that changes
\* question, flags, answers, totalVoters or recentVoters returns true.
C10_VersionOncePerMerge ==
    /\ version >= last.pre.version
    /\ Merged => version = last.pre.version + (IF last.ret THEN 1 ELSE 0)
    /\ (Merged /\ Observable(poll) # Observable(last.pre)) => last.ret = TRUE

\* One applyChanges changed question, flags and answers, and version
\* advanced by one.
C10_Witness ==
    /\ last.op = "applyChanges"
    /\ question # last.pre.question
    /\ flags # last.pre.flags
    /\ Len(answers) = 2 /\ Len(last.pre.answers) = 1
    /\ last.pre.answers[1].votes > 0
    /\ version = last.pre.version + 1

----------------------------------------------------------------------------
(* Reload throttle *)

\* C7: with lastResultsUpdate stamped at T, a checkResultsReload at a time
\* in [T, T + kShortPollTimeout) issues no reload, one at T +
\* kShortPollTimeout or later issues a reload exactly if the poll is not
\* closed, and a closed poll issues none at any time. applyResults stamps
\* on every call and checkResultsReload stamps when it issues a reload.
C7_ReloadThrottle ==
    /\ last.op = "checkResultsReload"
       => LET T == last.pre.lastResultsUpdate
              t == last.arg
              closed == IsClosed(last.pre.flags)
          IN /\ (T # 0 /\ T <= t /\ t < T + kShortPollTimeout)
                => last.ret = FALSE
             /\ (T # 0 /\ t >= T + kShortPollTimeout)
                => (last.ret = TRUE <=> ~closed)
             /\ closed => last.ret = FALSE
             /\ lastResultsUpdate = IF last.ret THEN t ELSE T
    /\ last.op = "applyResults" => lastResultsUpdate = last.pre.now

\* A reload was issued at the very instant the timeout of an earlier stamp
\* expired.
C7_Witness ==
    /\ last.op = "checkResultsReload"
    /\ last.ret = TRUE
    /\ last.pre.lastResultsUpdate # 0
    /\ last.arg = last.pre.lastResultsUpdate + kShortPollTimeout
    /\ lastResultsUpdate = last.arg

----------------------------------------------------------------------------
(* Flags and serialization *)

\* C11: setFlags(f) advances version by 1 if f differs from the current
\* flag set and by 0 otherwise, leaves question, the answers, totalVoters,
\* recentVoters and lastResultsUpdate as they were, and leaves flags = f.
C11_SetFlagsFrame ==
    last.op = "setFlags"
    => /\ version = last.pre.version
                   + (IF last.arg # last.pre.flags THEN 1 ELSE 0)
       /\ flags = last.arg
       /\ question = last.pre.question
       /\ answers = last.pre.answers
       /\ totalVoters = last.pre.totalVoters
       /\ recentVoters = last.pre.recentVoters
       /\ lastResultsUpdate = last.pre.lastResultsUpdate

\* setFlags replaced the flags of a poll that has an annotated answer, a
\* voter count, a recent voter and a results stamp.
C11_Witness ==
    /\ last.op = "setFlags"
    /\ last.arg # last.pre.flags
    /\ flags = last.arg
    /\ version = last.pre.version + 1
    /\ Len(answers) > 0 /\ answers[1].chosen
    /\ totalVoters > 0
    /\ recentVoters # <<>>
    /\ lastResultsUpdate # 0

\* A setFlags call with the flags the poll already has.
SetFlagsToTheSame ==
    /\ last.op = "setFlags"
    /\ last.arg = last.pre.flags
    /\ last.arg # {}
    /\ version = last.pre.version

\* The record of the last PollDataToMTP call says what the poll holds.
SerializedFaithfully ==
    last.op = "PollDataToMTP"
    => /\ last.ret.id = id
       /\ last.ret.question = question
       /\ Len(last.ret.answers) = Len(answers)
       /\ \A i \in 1..Len(answers) :
             /\ last.ret.answers[i].option = answers[i].option
             /\ last.ret.answers[i].text = answers[i].text
       /\ last.ret.public_voters = (PublicVotes \in flags)
       /\ last.ret.multiple_choice = (MultiChoice \in flags)
       /\ last.ret.quiz = (Quiz \in flags)
       /\ last.ret.closed = (IsClosed(flags) \/ last.arg)

\* The last call was applyChanges with the record PollDataToMTP makes of
\* the poll as the call found it.
AppliedBack(close) ==
    /\ last.op = "applyChanges"
    /\ last.arg = PollDataToMTP([id |-> id,
                                 question |-> last.pre.question,
                                 flags |-> last.pre.flags,
                                 answers |-> last.pre.answers], close)

\* Applying the record back leaves question and answers as they were, and
\* flags too, but for Closed when close was given.
RoundTrip ==
    /\ AppliedBack(FALSE)
       => /\ question = last.pre.question
          /\ flags = last.pre.flags
          /\ answers = last.pre.answers
    /\ AppliedBack(TRUE)
       => /\ question = last.pre.question
          /\ flags \ {Closed} = last.pre.flags \ {Closed}
          /\ answers = last.pre.answers

\* C20: PollDataToMTP(poll, close) carries the poll's id, question, answers
\* (option and text, in order) and flag bits, with the closed bit set iff
\* closed() or close; applied back with applyChanges, the record of close =
\* false leaves question, flags and every answer as they were, and the
\* record of close = true changes at most the Closed flag.
C20_SerializationRoundTrip ==
    SerializedFaithfully /\ RoundTrip

\* The round trip of C20 for a poll whose options are pairwise distinct.
RoundTripOfDistinctOptions ==
    DistinctOptions(last.pre.answers) => RoundTrip

\* The record of close = true came back to an open poll with an annotated
\* answer and closed it.
RoundTripHappened ==
    /\ AppliedBack(TRUE)
    /\ ~IsClosed(last.pre.flags)
    /\ IsClosed(flags)
    /\ last.pre.flags # {}
    /\ DistinctOptions(last.pre.answers)
    /\ Len(answers) = 2
    /\ answers[2].chosen

----------------------------------------------------------------------------
(* Option keys, and results applied twice *)

\* C12: in every reachable state the option values of the stored answers
\* are pairwise distinct.
C12_StoredOptionsDistinct ==
    DistinctOptions(answers)

\* The ids of the list that the user lookup resolves.
AllLoaded(ids) == \A i \in 1..Len(ids) : ids[i] \in LoadedUsers

\* No option occurs in two records of the list.
DistinctRecords(records) ==
    \A i, j \in 1..Len(records) :
        records[i].option = records[j].option => i = j

\* The step is an applyResults call that repeats the call before it.
RepeatsApplyResults ==
    /\ last.op = "applyResults"
    /\ last'.op = "applyResults"
    /\ last'.arg = last.arg
    /\ last'.pre = poll

\* The step changes neither version nor answers, totalVoters, recentVoters.
KeepsResults ==
    /\ last'.ret = FALSE
    /\ version' = version
    /\ answers' = answers
    /\ totalVoters' = totalVoters
    /\ recentVoters' = recentVoters

\* C13: applying one results record twice in a row, the second applyResults
\* returns false and leaves version, answers, totalVoters and recentVoters
\* as the first call left them.
C13_SecondApplyResultsReturnsFalse ==
    [][RepeatsApplyResults => KeepsResults]_vars

\* The same for a record whose recent voters all resolve and whose records
\* name every option once.
SecondApplyOfPlainResultsReturnsFalse ==
    [][(/\ RepeatsApplyResults
        /\ DistinctRecords(last.arg.results)
        /\ (last.arg.recent_voters # Absent
            => AllLoaded(last.arg.recent_voters[1])))
       => KeepsResults]_vars

----------------------------------------------------------------------------
(* Results merge: what is skipped, dropped and kept *)

\* The positions of the stored answers that a record of the last
\* applyResults reaches.
Reached == {m[2] : m \in Matched}

\* C14: a record whose option matches no stored answer is skipped. The call
\* changes no answer that no record reaches; a call whose records all miss,
\* with no voter count and no recent voters, returns false and leaves
\* version alone; and every answer that a record does reach carries the
\* votes of the last record with its option, whatever records missed.
C14_UnknownOptionSkipped ==
    last.op = "applyResults"
    => /\ Len(answers) = Len(last.pre.answers)
       /\ \A i \in 1..Len(answers) :
             i \notin Reached => answers[i] = last.pre.answers[i]
       /\ (/\ Matched = {}
           /\ last.arg.total_voters = Absent
           /\ last.arg.recent_voters = Absent)
          => (last.ret = FALSE /\ version = last.pre.version)
       /\ \A m \in Matched :
             LET option == last.arg.results[m[1]].option
                 k == LastRecordFor(last.arg.results, option)
             IN answers[m[2]].votes = last.arg.results[k].voters

\* A record for an unknown option came first in a list whose second record
\* changed the votes of a stored answer.
C14_Witness ==
    /\ last.op = "applyResults"
    /\ Len(last.arg.results) = 2
    /\ AnswerByOption(last.pre.answers, last.arg.results[1].option) = 0
    /\ Reached = {1}
    /\ answers[1].votes # last.pre.answers[1].votes
    /\ last.ret = TRUE

\* Every record of a call missed, and the call returned false.
AllRecordsMissed ==
    /\ last.op = "applyResults"
    /\ Len(last.arg.results) > 0
    /\ Len(last.pre.answers) > 0
    /\ Matched = {}
    /\ last.ret = FALSE

\* The user lookup resolves this id.
IsLoadedId(userId) == userId \in LoadedUsers

\* C15: after an applyResults call that carries recent voters, the stored
\* recentVoters are the handles of the input ids that the lookup resolves,
\* in input order; and recentVoters never holds an unresolved user.
C15_UnresolvedDropped ==
    /\ \A i \in 1..Len(recentVoters) : UserLoaded(recentVoters[i])
    /\ (last.op = "applyResults" /\ last.arg.recent_voters # Absent)
       => LET kept == SelectSeq(last.arg.recent_voters[1], IsLoadedId)
          IN /\ Len(recentVoters) = Len(kept)
             /\ \A i \in 1..Len(kept) : recentVoters[i] = User(kept[i])

\* A list of an unresolved id and a resolved one replaced the stored voters
\* by the resolved one alone.
C15_Witness ==
    /\ last.op = "applyResults"
    /\ last.arg.recent_voters # Absent
    /\ Len(last.arg.recent_voters[1]) = 2
    /\ ~IsLoadedId(last.arg.recent_voters[1][1])
    /\ Len(recentVoters) = 1
    /\ recentVoters[1].id = last.arg.recent_voters[1][2]
    /\ recentVoters # last.pre.recentVoters

\* C16: an applyResults call with no voter count leaves totalVoters as it
\* was; a call with a count N leaves totalVoters = N and returns true
\* whenever N differs from the previous value.
C16_TotalVotersFollowsCount ==
    last.op = "applyResults"
    => IF last.arg.total_voters = Absent
       THEN totalVoters = last.pre.totalVoters
       ELSE /\ totalVoters = last.arg.total_voters[1]
            /\ last.arg.total_voters[1] # last.pre.totalVoters
               => last.ret = TRUE

\* A min update lowered the voter count and changed nothing else.
C16_Witness ==
    /\ AppliedResults(TRUE)
    /\ last.arg.total_voters # Absent
    /\ last.arg.total_voters[1] < last.pre.totalVoters
    /\ totalVoters = last.arg.total_voters[1]
    /\ answers = last.pre.answers
    /\ Len(answers) > 0
    /\ last.ret = TRUE

\* A call without a voter count changed an answer and the recent voters
\* and left the count.
CountAbsentInAChange ==
    /\ AppliedResults(FALSE)
    /\ last.arg.total_voters = Absent
    /\ last.ret = TRUE
    /\ answers # last.pre.answers
    /\ recentVoters # last.pre.recentVoters
    /\ totalVoters = last.pre.totalVoters
    /\ totalVoters > 0

----------------------------------------------------------------------------
(* What a merge reports, and what each call leaves alone *)

\* C17: whenever an applyChanges or applyResults call returns true, at
\* least one of question, flags, answers, totalVoters and recentVoters
\* differs between the state before the call and the state after it.
C17_TrueMeansChanged ==
    (Merged /\ last.ret = TRUE) => Observable(poll) # Observable(last.pre)

\* The same for applyResults alone.
ResultsTrueMeansChanged ==
    (last.op = "applyResults" /\ last.ret = TRUE)
    => Observable(poll) # Observable(last.pre)

\* The same for applyResults with records that name every option once and
\* recent voters that all resolve.
PlainResultsTrueMeansChanged ==
    (/\ last.op = "applyResults"
     /\ last.ret = TRUE
     /\ DistinctRecords(last.arg.results)
     /\ (last.arg.recent_voters # Absent
         => AllLoaded(last.arg.recent_voters[1])))
    => Observable(poll) # Observable(last.pre)

\* The option and text of every answer of the list, in order.
Shape(list) == [i \in 1..Len(list) |-> <<list[i].option, list[i].text>>]

\* C18: applyChanges never changes totalVoters, recentVoters or
\* lastResultsUpdate; applyResults never changes question, flags, or the
\* length, order, option or text of the answers; checkResultsReload changes
\* nothing but lastResultsUpdate, and that only when it issues a reload; and
\* no call changes id.
C18_DisjointStructure ==
    /\ id = PollId
    /\ last.op = "applyChanges"
       => /\ totalVoters = last.pre.totalVoters
          /\ recentVoters = last.pre.recentVoters
          /\ lastResultsUpdate = last.pre.lastResultsUpdate
    /\ last.op = "applyResults"
       => /\ question = last.pre.question
          /\ flags = last.pre.flags
          /\ Shape(answers) = Shape(last.pre.answers)
    /\ last.op = "checkResultsReload"
       => /\ Observable(poll) = Observable(last.pre)
          /\ version = last.pre.version
          /\ last.ret = FALSE => lastResultsUpdate = last.pre.lastResultsUpdate

\* checkResultsReload ran after the stamp of a poll that has answers, a
\* voter count and recent voters, issued no reload and left the stamp.
C18_Witness ==
    /\ last.op = "checkResultsReload"
    /\ last.ret = FALSE
    /\ last.pre.lastResultsUpdate # 0
    /\ last.arg > last.pre.lastResultsUpdate
    /\ lastResultsUpdate = last.pre.lastResultsUpdate
    /\ Len(answers) = 2
    /\ totalVoters > 0
    /\ recentVoters # <<>>

\* applyChanges replaced question, flags and answers of a poll that has a
\* voter count, recent voters and a stamp.
ChangesBesideResults ==
    /\ last.op = "applyChanges"
    /\ last.ret = TRUE
    /\ question # last.pre.question
    /\ flags # last.pre.flags
    /\ Shape(answers) # Shape(last.pre.answers)
    /\ totalVoters > 0
    /\ recentVoters # <<>>
    /\ lastResultsUpdate # 0

\* applyResults changed an answer, the voter count and the recent voters of
\* a closed poll with a question.
ResultsBesideDefinition ==
    /\ last.op = "applyResults"
    /\ last.ret = TRUE
    /\ answers # last.pre.answers
    /\ totalVoters # last.pre.totalVoters
    /\ recentVoters # last.pre.recentVoters
    /\ question # ""
    /\ flags # {}

\* checkResultsReload issued a reload and stamped.
ReloadIssued ==
    /\ last.op = "checkResultsReload"
    /\ last.ret = TRUE
    /\ lastResultsUpdate = last.arg
    /\ lastResultsUpdate # last.pre.lastResultsUpdate

----------------------------------------------------------------------------
(* Reload spacing *)

\* The last call was checkResultsReload and it requested a reload.
Requested ==
    last.op = "checkResultsReload" /\ last.ret = TRUE

\* C19: the clock never runs backwards, so the most recent applyResults
\* call and the most recent reload request both lie at or before
\* lastThrottled, the later of the two. A reload is requested at time t only
\* if neither ever happened or t is kShortPollTimeout or more after
\* lastThrottled: two successive requests are kShortPollTimeout apart, and so
\* are an applyResults call and the request that follows it.
C19_ReloadSpacing ==
    /\ lastThrottled <= now
    /\ Requested
       => /\ last.arg >= last.pre.lastThrottled
          /\ \/ last.pre.lastThrottled = 0
             \/ last.arg - last.pre.lastThrottled >= kShortPollTimeout

\* A reload was requested at the first instant allowed after the last
\* throttled event, itself more than one timeout after the start.
C19_Witness ==
    /\ Requested
    /\ last.pre.lastThrottled > kShortPollTimeout
    /\ last.arg = last.pre.lastThrottled + kShortPollTimeout
    /\ last.pre.version > 0

\* checkResultsReload, called one instant before the timeout of the last
\* throttled event expired, requested nothing.
TooEarlyToReload ==
    /\ last.op = "checkResultsReload"
    /\ last.ret = FALSE
    /\ ~IsClosed(last.pre.flags)
    /\ last.arg = last.pre.lastThrottled + kShortPollTimeout - 1

\* lastResultsUpdate is the time of the last throttled event.
StampIsLastThrottled ==
    lastResultsUpdate = lastThrottled

====
